---------------------------- MODULE Spec2Model ----------------------------
(***************************************************************************)
(* A model of graphtools/graphs.py: the kernel builders kNNGraph,          *)
(* TraditionalGraph and MNNGraph, the LandmarkGraph caches, and the safe   *)
(* setters set_params.                                                     *)
(*                                                                         *)
(* Numbers.  Samples are points on the integer line, so that every         *)
(* distance |x - y| is an exact integer (all Minkowski metrics agree in    *)
(* one dimension; the `distance` parameter is carried as a label).         *)
(* Kernel entries are fixed-point numbers in units of 1/ONE.  The          *)
(* parameter `thresh` is carried as T = -ln(thresh), an integer, so that   *)
(* thresh = exp(-T) and thresh == 1 is T = 0; the radius relation          *)
(*   d < bandwidth * (-ln thresh)^(1/decay)                                *)
(* is then the exact integer comparison d^decay < bandwidth^decay * T.     *)
(* Inputs with a zero bandwidth (the knn-th neighbour at distance 0, where *)
(* numpy divides by zero) are outside the modelled input domain.           *)
(*                                                                         *)
(* Specifications.  SpecKernel builds the kernel of one graph of every     *)
(* class; SpecSearch runs kNNGraph.build_kernel_to_data pass by pass;      *)
(* SpecParams calls set_params on unbuilt and built graphs; SpecLandmark   *)
(* runs the landmark properties, build_landmark_op and set_params of a     *)
(* landmark graph over a kNNGraph; SpecEscalate is SpecSearch on graphs of *)
(* every size with weak fairness of the steps of the call; SpecExtend      *)
(* calls MNNGraph.build_kernel_to_data; SpecConstruct runs                 *)
(* MNNGraph.__init__ on arguments of every kind; SpecGet calls get_params  *)
(* between calls of set_params; SpecMatrices computes the landmark         *)
(* matrices of build_landmark_op; SpecExtendLandmark is SpecLandmark with  *)
(* extend_to_data; SpecLandmarkInit runs LandmarkGraph.__init__ and then   *)
(* set_params.  The variable `call` keeps the                              *)
(* arguments and the outcome of the last call together with the state it   *)
(* started from, so that the effect of a call is a state predicate.        *)
(***************************************************************************)
EXTENDS Integers, Sequences, FiniteSets, TLC

\* ------------------------------------------------------------------ bounds
\* largest coordinate of a sample in the kernel specifications
MaxCoord == 4
\* largest number of samples in the kernel specifications
MaxN == 4
\* samples on one side of the origin in the search specification
SideSmall == 10
SideLarge == 21
\* distance of the far query point from the origin
FarOffset == 60
\* number of set_params calls made on one graph
MaxCalls == 1

\* ------------------------------------------------------- program constants
\* Python's None as the value of a numeric parameter (decay=None)
None == -1
\* the fixed-point image of the float 1.0 (kernel entries are k / ONE)
ONE == 20000
\* denominator of the rational parameters beta and gamma (value / PDen)
PDen == 4
\* search_knn = min(knn * 20, n) and search_knn * 20
SearchFactor == 20
\* len(update_idx) > len(Y) // 10
UpdateDivisor == 10

\* ---------------------------------------------------------------- numbers
Min2(a, b) == IF a <= b THEN a ELSE b
Max2(a, b) == IF a >= b THEN a ELSE b
Abs(a) == IF a < 0 THEN -a ELSE a

\* np.power(x, decay) for the integer decays of the model
Pow(x, e) == IF e = 0 THEN 1 ELSE IF e = 1 THEN x ELSE x * x

\* exp(-n) for n = 0..9 in units of 1/10000; exp(-n) below that resolution
\* for n >= 10
ExpTable == <<10000, 3679, 1353, 498, 183, 67, 25, 9, 3, 1>>

RECURSIVE TaylorTerm(_, _, _)
TaylorTerm(r, q, k) ==
    IF k = 0 THEN 10000 ELSE (TaylorTerm(r, q, k - 1) * r) \div (q * k)

\* exp(r/q) for 0 <= r < q, in units of 1/10000
ExpPos(r, q) ==
    TaylorTerm(r, q, 0) + TaylorTerm(r, q, 1) + TaylorTerm(r, q, 2)
    + TaylorTerm(r, q, 3) + TaylorTerm(r, q, 4) + TaylorTerm(r, q, 5)
    + TaylorTerm(r, q, 6) + TaylorTerm(r, q, 7)

\* np.exp(-1 * p/q) in units of 1/ONE (q > 0, p >= 0)
ExpNeg(p, q) ==
    LET n == p \div q
        r == p % q
    IN  IF n >= Len(ExpTable) THEN 0
        ELSE 2 * ((ExpTable[n + 1] * 10000) \div ExpPos(r, q))

\* the float value of the parameter thresh = exp(-T)
ThreshVal(T) == ExpNeg(T, 1)

\* np.round(num / den): round half to even (den > 0, num >= 0)
RoundHalfEven(num, den) ==
    LET f == num \div den
        r2 == 2 * (num % den)
    IN  IF r2 < den THEN f
        ELSE IF r2 > den THEN f + 1
        ELSE IF f % 2 = 0 THEN f ELSE f + 1

RECURSIVE SumSeq(_)
SumSeq(s) == IF s = <<>> THEN 0 ELSE Head(s) + SumSeq(Tail(s))

RECURSIVE SetMax(_)
SetMax(S) ==
    LET x == CHOOSE y \in S : TRUE
    IN  IF S = {x} THEN x ELSE Max2(x, SetMax(S \ {x}))

RECURSIVE SetMin(_)
SetMin(S) ==
    LET x == CHOOSE y \in S : TRUE
    IN  IF S = {x} THEN x ELSE Min2(x, SetMin(S \ {x}))

\* ------------------------------------------------------ neighbour search
\* sklearn NearestNeighbors fitted on `pts` (a sequence of coordinates) and
\* queried at coordinate y.  Equal distances are ordered by sample index,
\* lowest first (tie = "low") or highest first (tie = "high"): the order
\* among ties is the library's choice.
Dist(pts, y, j) == Abs(pts[j] - y)

Before(pts, y, tie, i, j) ==
    \/ Dist(pts, y, i) < Dist(pts, y, j)
    \/ /\ Dist(pts, y, i) = Dist(pts, y, j)
       /\ IF tie = "low" THEN i < j ELSE i > j

\* position of sample j in the sorted neighbour list of y (1 = nearest)
Rank(pts, y, tie, j) ==
    1 + Cardinality({i \in DOMAIN pts : Before(pts, y, tie, i, j)})

\* knn_tree.kneighbors(y, n_neighbors=k): the indices returned
Kneighbors(pts, y, k, tie) ==
    {j \in DOMAIN pts : Rank(pts, y, tie, j) <= k}

\* the r-th smallest distance from y (distances[:, r - 1])
KthDist(pts, y, tie, r) ==
    Dist(pts, y, CHOOSE j \in DOMAIN pts : Rank(pts, y, tie, j) = r)

\* knn_tree.radius_neighbors(y, radius): every sample with dist <= radius,
\* the radius given as bw * T^(1/decay)
RadiusNeighbors(pts, y, bw, T, decay) ==
    {j \in DOMAIN pts : Pow(Dist(pts, y, j), decay) <= Pow(bw, decay) * T}


\* ---------------------------------------------------------------- matrices
Transpose(M, rows, cols) == [j \in cols |-> [i \in rows |-> M[i][j]]]

\* a faulty variant of SymMean: the symmetrization is left out
SymMeanSkipped(M, idx) == M

\* (K + K.T) / 2
SymMean(M, idx) == [i \in idx |-> [j \in idx |-> (M[i][j] + M[j][i]) \div 2]]

\* ---------------------------------------------------------------- kNNGraph
\* `self.decay is None or self.thresh == 1`: the binary connectivity branch
IsBinary(decay, T) == decay = None \/ T = 0

\* bandwidth = distances[:, knn - 1]
Bandwidth(pts, y, knn, tie) == KthDist(pts, y, tie, knn)

\* np.max(distances[i]) < radius[i], for a row holding its c nearest
\* samples; radius = bandwidth * (-ln thresh)^(1/decay)
RowUnresolved(pts, y, knn, decay, T, tie, c) ==
    Pow(KthDist(pts, y, tie, c), decay)
        < Pow(Bandwidth(pts, y, knn, tie), decay) * T

\* update_idx: the rows whose farthest found neighbour is inside the radius
UpdateIdx(pts, Y, knn, decay, T, tie, cnt) ==
    {i \in DOMAIN Y : RowUnresolved(pts, Y[i], knn, decay, T, tie, cnt[i])}

\* search_knn = min(knn * 20, len(self.data_nu)) and the first query
InitialSearch(pts, Y, knn, decay, T, tie) ==
    LET s == Min2(knn * SearchFactor, Len(pts))
        cnt == [i \in DOMAIN Y |-> s]
    IN  [search_knn |-> s, cnt |-> cnt,
         bandwidth |-> [i \in DOMAIN Y |-> Bandwidth(pts, Y[i], knn, tie)],
         update_idx |-> UpdateIdx(pts, Y, knn, decay, T, tie, cnt),
         passes |-> 0]

\* the condition of the while loop
LoopCond(pts, Y, st) ==
    /\ Cardinality(st.update_idx) > Len(Y) \div UpdateDivisor
    /\ 2 * st.search_knn < Len(pts)

\* one pass of the while loop: widen the search for the rows of update_idx
\* and recompute update_idx over all rows
SearchPass(pts, Y, knn, decay, T, tie, st) ==
    LET s == Min2(st.search_knn * SearchFactor, Len(pts))
        cnt == [i \in DOMAIN Y |->
                    IF i \in st.update_idx THEN s ELSE st.cnt[i]]
    IN  [search_knn |-> s, cnt |-> cnt, bandwidth |-> st.bandwidth,
         update_idx |-> UpdateIdx(pts, Y, knn, decay, T, tie, cnt),
         passes |-> st.passes + 1]

RECURSIVE Escalate(_, _, _, _, _, _, _)
Escalate(pts, Y, knn, decay, T, tie, st) ==
    IF LoopCond(pts, Y, st)
    THEN Escalate(pts, Y, knn, decay, T, tie,
                  SearchPass(pts, Y, knn, decay, T, tie, st))
    ELSE st

\* radius=np.max(radius[update_idx]): the largest bandwidth of the
\* unresolved rows stands for the largest radius
MaxBandwidth(st) == SetMax({st.bandwidth[i] : i \in st.update_idx})

\* sample j is held for row i when the search ends: it is among the cnt[i]
\* nearest, or, for a row still in update_idx, in the result of the radius
\* query
Found(pts, Y, knn, decay, T, tie, st, i, j) ==
    IF i \in st.update_idx
    THEN j \in RadiusNeighbors(pts, Y[i], MaxBandwidth(st), T, decay)
    ELSE Rank(pts, Y[i], tie, j) <= st.cnt[i]

\* the samples held for row i when the search ends
FoundSet(pts, Y, knn, decay, T, tie, st, i) ==
    {j \in DOMAIN pts : Found(pts, Y, knn, decay, T, tie, st, i, j)}

\* K.data = exp(-(d / bandwidth)^decay)
Affinity(d, bw, decay) == ExpNeg(Pow(d, decay), Pow(bw, decay))

\* K.data[K.data < self.thresh] = 0
ZeroBelow(v, T) == IF v < ThreshVal(T) THEN 0 ELSE v

\* the csr matrix assembled from the found samples, thresholded
DecayKernel(pts, Y, knn, decay, T, tie, st) ==
    [i \in DOMAIN Y |->
        LET bw == st.bandwidth[i]
        IN  [j \in DOMAIN pts |->
                IF Found(pts, Y, knn, decay, T, tie, st, i, j)
                THEN ZeroBelow(Affinity(Dist(pts, Y[i], j), bw, decay), T)
                ELSE 0]]

\* a faulty variant of ConnectivityKernel: the connectivity graph leaves
\* out a sample at distance 0 (include_self=False)
ConnectivityNoSelf(pts, Y, knn, tie) ==
    [i \in DOMAIN Y |-> [j \in DOMAIN pts |->
        IF j \in Kneighbors(pts, Y[i], knn, tie) /\ Dist(pts, Y[i], j) # 0
        THEN ONE ELSE 0]]

\* knn_tree.kneighbors_graph(Y, n_neighbors=knn, mode='connectivity')
ConnectivityKernel(pts, Y, knn, tie) ==
    [i \in DOMAIN Y |->
        LET found == Kneighbors(pts, Y[i], knn, tie)
        IN  [j \in DOMAIN pts |-> IF j \in found THEN ONE ELSE 0]]

\* kNNGraph.build_kernel_to_data(Y, knn)
KnnBuildKernelToData(pts, Y, knn, decay, T, tie) ==
    IF IsBinary(decay, T)
    THEN ConnectivityKernel(pts, Y, knn, tie)
    ELSE DecayKernel(pts, Y, knn, decay, T, tie,
                     Escalate(pts, Y, knn, decay, T, tie,
                              InitialSearch(pts, Y, knn, decay, T, tie)))

\* kNNGraph.build_kernel()
KnnBuildKernel(pts, knn, decay, T, tie) ==
    SymMean(IF IsBinary(decay, T)
            THEN ConnectivityKernel(pts, pts, knn, tie)
            ELSE KnnBuildKernelToData(pts, pts, knn, decay, T, tie),
            DOMAIN pts)

\* --------------------------------------------------------- TraditionalGraph
\* squareform(pdist(self.data_nu, metric=self.distance))
Pdist(pts) == [i \in DOMAIN pts |-> [j \in DOMAIN pts |-> Abs(pts[i] - pts[j])]]

\* np.max(np.partition(row, knn)[:knn]): the knn-th smallest entry of a row
KthSmallest(row, k) ==
    CHOOSE v \in {row[j] : j \in DOMAIN row} :
        /\ Cardinality({j \in DOMAIN row : row[j] < v}) < k
        /\ Cardinality({j \in DOMAIN row : row[j] <= v}) >= k

\* set_diagonal(K, 1)
SetDiagonal(M, idx, v) ==
    [i \in idx |-> [j \in idx |-> IF i = j THEN v ELSE M[i][j]]]

\* the adaptive Gaussian kernel of a full distance matrix
TraditionalAffinities(pdx, idx, knn, decay) ==
    [i \in idx |-> [j \in idx |->
        Affinity(pdx[i][j], KthSmallest(pdx[i], knn), decay)]]

\* K[K < self.thresh] = 0
ThresholdMatrix(M, idx, T) ==
    [i \in idx |-> [j \in idx |-> ZeroBelow(M[i][j], T)]]

\* TraditionalGraph.build_kernel(); `mat` is self.data_nu (a sequence of
\* coordinates when precomputed is None, a square matrix otherwise)
TraditionalBuildKernel(mat, precomputed, knn, decay, T) ==
    LET idx == DOMAIN mat
        K0 == IF precomputed = "affinity" THEN mat
              ELSE IF precomputed = "adjacency" THEN SetDiagonal(mat, idx, ONE)
              ELSE TraditionalAffinities(
                       IF precomputed = "distance" THEN mat ELSE Pdist(mat),
                       idx, knn, decay)
    IN  ThresholdMatrix(SymMean(K0, idx), idx, T)


\* ----------------------------------------------------------------- MNNGraph
\* self.samples, self.n_cells = np.unique(sample_idx, return_counts=True);
\* batches are numbered 0 .. m-1 as in the source
Labels(sample_idx) == {sample_idx[a] : a \in DOMAIN sample_idx}

NumBatches(sample_idx) == Cardinality(Labels(sample_idx))

SampleLabel(sample_idx, i) ==
    CHOOSE l \in Labels(sample_idx) :
        Cardinality({x \in Labels(sample_idx) : x < l}) = i

\* the rows selected by the boolean mask `sample_idx == v`, in order
MaskRows(sample_idx, v) ==
    SelectSeq([a \in DOMAIN sample_idx |-> a], LAMBDA a : sample_idx[a] = v)

NCells(sample_idx, i) == Len(MaskRows(sample_idx, SampleLabel(sample_idx, i)))

\* self.data_nu[self.sample_idx == idx]: the data of subgraph i
SubgraphData(pts, sample_idx, i) ==
    LET rows == MaskRows(sample_idx, SampleLabel(sample_idx, i))
    IN  [r \in DOMAIN rows |-> pts[rows[r]]]

\* np.round(knn * sqrt(num / den)), half to even
RoundKnnSqrt(knn, num, den) ==
    LET x2 == 4 * knn * knn * num
    IN  CHOOSE w \in 0 .. (knn * num + 1) :
          \/ /\ (2 * w - 1) * (2 * w - 1) * den < x2
             /\ x2 < (2 * w + 1) * (2 * w + 1) * den
          \/ /\ w % 2 = 0
             /\ \/ (2 * w - 1) * (2 * w - 1) * den = x2
                \/ (2 * w + 1) * (2 * w + 1) * den = x2
             /\ w >= 0

\* a faulty variant of WeightKnn: the product is truncated, not rounded
WeightKnnTruncated(sample_idx, knn, adaptive_k, i) ==
    LET m == NumBatches(sample_idx)
        ni == NCells(sample_idx, i)
        nmin == SetMin({NCells(sample_idx, b) : b \in 0 .. m - 1})
    IN  IF adaptive_k = "min" THEN (knn * ni) \div nmin
        ELSE IF adaptive_k = "mean" THEN (knn * ni * m) \div Len(sample_idx)
        ELSE IF adaptive_k = "sqrt"
             THEN CHOOSE w \in 0 .. (knn * ni) :
                    /\ w * w * nmin <= knn * knn * ni
                    /\ knn * knn * ni < (w + 1) * (w + 1) * nmin
        ELSE knn

\* MNNGraph._weight_knn(): the per-batch neighbour count of batch i
WeightKnn(sample_idx, knn, adaptive_k, i) ==
    LET m == NumBatches(sample_idx)
        ni == NCells(sample_idx, i)
        nmin == SetMin({NCells(sample_idx, b) : b \in 0 .. m - 1})
    IN  IF adaptive_k = "min" THEN RoundHalfEven(knn * ni, nmin)
        ELSE IF adaptive_k = "mean"
             THEN RoundHalfEven(knn * ni * m, Len(sample_idx))
        ELSE IF adaptive_k = "sqrt" THEN RoundKnnSqrt(knn, ni, nmin)
        ELSE knn

\* a faulty variant of MnnBlock: beta scales the cross-batch blocks too
MnnBlockAllScaled(pts, sample_idx, knn, adaptive_k, beta, decay, T, tie, i, j) ==
    LET Kij == KnnBuildKernelToData(
                   SubgraphData(pts, sample_idx, j),
                   SubgraphData(pts, sample_idx, i),
                   WeightKnn(sample_idx, knn, adaptive_k, i), decay, T, tie)
    IN  [r \in DOMAIN Kij |-> [c \in DOMAIN Kij[r] |->
            (Kij[r][c] * beta) \div PDen]]

\* Kij = Y.build_kernel_to_data(X.data_nu, knn=self.weighted_knn[i]), with
\* X = subgraphs[i] and Y = subgraphs[j]; `if i == j: Kij = Kij * self.beta`
MnnBlock(pts, sample_idx, knn, adaptive_k, beta, decay, T, tie, i, j) ==
    LET X == SubgraphData(pts, sample_idx, i)
        Y == SubgraphData(pts, sample_idx, j)
        Kij == KnnBuildKernelToData(
                   Y, X, WeightKnn(sample_idx, knn, adaptive_k, i),
                   decay, T, tie)
    IN  IF i = j
        THEN [r \in DOMAIN X |-> [c \in DOMAIN Y |->
                 (Kij[r][c] * beta) \div PDen]]
        ELSE Kij

\* the neighbour query of block (i, j) is rejected by the search index: it
\* asks for more neighbours than subgraph j holds samples, or for none
MnnBlockRaises(sample_idx, knn, adaptive_k, i, j) ==
    \/ WeightKnn(sample_idx, knn, adaptive_k, i) > NCells(sample_idx, j)
    \/ WeightKnn(sample_idx, knn, adaptive_k, i) < 1

\* set_submatrix(K, sample_idx == i, sample_idx == j, Kij) needs a target of
\* the shape of Kij
SubmatrixFits(sample_idx, i, j) ==
    /\ Len(MaskRows(sample_idx, i)) = NCells(sample_idx, i)
    /\ Len(MaskRows(sample_idx, j)) = NCells(sample_idx, j)

\* build_kernel() raises before it returns a matrix
MnnBuildRaises(sample_idx, knn, adaptive_k) ==
    \E i, j \in 0 .. NumBatches(sample_idx) - 1 :
        \/ MnnBlockRaises(sample_idx, knn, adaptive_k, i, j)
        \/ ~SubmatrixFits(sample_idx, i, j)

\* position of row a in the mask `sample_idx == v`
MaskPos(sample_idx, v, a) ==
    CHOOSE r \in DOMAIN MaskRows(sample_idx, v) :
        MaskRows(sample_idx, v)[r] = a

\* the n x n matrix assembled from all blocks, before symmetrization:
\* entry (a, b) is written by the block (i, j) whose masks select a and b
MnnAssemble(pts, sample_idx, knn, adaptive_k, beta, decay, T, tie) ==
    LET m == NumBatches(sample_idx)
        blocks == [i \in 0 .. m - 1 |-> [j \in 0 .. m - 1 |->
                     MnnBlock(pts, sample_idx, knn, adaptive_k, beta,
                              decay, T, tie, i, j)]]
        pos == [a \in DOMAIN pts |->
                   MaskPos(sample_idx, sample_idx[a], a)]
    IN  [a \in DOMAIN pts |-> [b \in DOMAIN pts |->
           IF sample_idx[a] \in 0 .. m - 1 /\ sample_idx[b] \in 0 .. m - 1
           THEN blocks[sample_idx[a]][sample_idx[b]][pos[a]][pos[b]]
           ELSE 0]]

\* a faulty variant of Blend: the weights of the minimum and the maximum
\* are swapped
BlendSwapped(g, a, b) ==
    ((PDen - g) * Min2(a, b) + g * Max2(a, b)) \div PDen

\* gamma * min(a, b) + (1 - gamma) * max(a, b), gamma = g / PDen
Blend(g, a, b) == (g * Min2(a, b) + (PDen - g) * Max2(a, b)) \div PDen

\* the symmetrization of build_kernel(); gamma is a record
\* [kind: "+" | "*" | "scalar" | "matrix", val]
MnnSymmetrize(K, sample_idx, gamma) ==
    LET idx == DOMAIN K
    IN  IF gamma.kind = "matrix"
        THEN [a \in idx |-> [b \in idx |->
                 LET i == Min2(sample_idx[a], sample_idx[b])
                     j == Max2(sample_idx[a], sample_idx[b])
                 IN  Blend(gamma.val[i][j], K[a][b], K[b][a])]]
        ELSE IF gamma.kind = "+" THEN SymMean(K, idx)
        ELSE IF gamma.kind = "*"
             THEN [a \in idx |-> [b \in idx |-> (K[a][b] * K[b][a]) \div ONE]]
        ELSE [a \in idx |-> [b \in idx |-> Blend(gamma.val, K[a][b], K[b][a])]]

\* MNNGraph.build_kernel()
MnnBuildKernel(pts, sample_idx, knn, adaptive_k, beta, gamma, decay, T, tie) ==
    MnnSymmetrize(
        MnnAssemble(pts, sample_idx, knn, adaptive_k, beta, decay, T, tie),
        sample_idx, gamma)


\* =================================================================== state
VARIABLES
    g,          \* the graph object (`self`): its class and attributes
    tie,        \* how the search index orders samples at equal distance
    kernel,     \* the kernel built for g: [status, K]
    query,      \* Y, the new points handed to build_kernel_to_data
    search,     \* the running call of kNNGraph.build_kernel_to_data
    subgraphs,  \* MNNGraph: self.subgraphs, empty until build_kernel()
    landmark,   \* LandmarkGraph: _landmark_op, _transitions, _clusters
    call        \* the last set_params or landmark call made on g: its
                \* arguments, its outcome and the state it started from

vars == <<g, tie, kernel, query, search, subgraphs, landmark, call>>

\* ------------------------------------------------------------ input domains
Ties == {"low", "high"}

\* n distinct samples on the line, in increasing order
SortedPts(n) ==
    {s \in [1 .. n -> 0 .. MaxCoord] : \A i \in 1 .. n - 1 : s[i] < s[i + 1]}

\* decay values of the kernel specifications (None: no alpha decay)
Decays == {None, 1, 2}

\* thresh = exp(-T): 1, exp(-1), exp(-2), exp(-4)
Threshs == {0, 1, 2, 4}

NoGamma == [kind |-> "scalar", val |-> 0]

\* the attributes of a graph object; an attribute a class does not have
\* holds a fixed filler value.  n_landmark is None unless the graph is a
\* LandmarkGraph.
Obj(cls, data, knn, decay, thresh, precomputed, sample_idx, beta, gamma, adaptive_k, knn_args) ==
    [cls |-> cls, data |-> data, knn |-> knn, decay |-> decay,
     thresh |-> thresh, distance |-> "euclidean", precomputed |-> precomputed,
     sample_idx |-> sample_idx, beta |-> beta, gamma |-> gamma,
     adaptive_k |-> adaptive_k, knn_args |-> knn_args,
     n_jobs |-> 1, random_state |-> None, verbose |-> 0,
     n_landmark |-> None, n_svd |-> None]

\* kNNGraph.__init__: decay with thresh <= 0 is rejected; every thresh of
\* the model is positive.  The decay kernel divides by the distance to the
\* knn-th neighbour, which is positive from knn = 2 on.
KnnGraphs ==
    {Obj("kNNGraph", pts, knn, decay, T, "None", <<>>, PDen, NoGamma,
         "none", <<>>) :
        pts \in UNION {SortedPts(n) : n \in 3 .. MaxN},
        knn \in 1 .. 3, decay \in Decays, T \in Threshs}

KnnAccepted(o) ==
    /\ o.knn <= Len(o.data)
    /\ IsBinary(o.decay, o.thresh) \/ o.knn >= 2

\* precomputed matrices: 3 x 3, one value of `diag` all along the diagonal
\* and the other entries drawn from `off`
SquareMatrices(diag, off) ==
    {m \in [1 .. 3 -> [1 .. 3 -> diag \cup off]] :
        /\ \A i \in 1 .. 3 : m[i][i] \in diag /\ m[i][i] = m[1][1]
        /\ \A i, j \in 1 .. 3 : i # j => m[i][j] \in off}

\* TraditionalGraph.__init__: decay is required unless the data is an
\* affinity or adjacency matrix; a precomputed matrix is square and
\* non-negative
TraditionalRaw ==
    {Obj("TraditionalGraph", pts, knn, decay, T, "None", <<>>, PDen,
         NoGamma, "none", <<>>) :
        pts \in UNION {SortedPts(n) : n \in 3 .. MaxN},
        knn \in {2}, decay \in {1, 2}, T \in Threshs}

TraditionalPrecomputed ==
    {Obj("TraditionalGraph", m, 2, decay, T, "distance", <<>>, PDen,
         NoGamma, "none", <<>>) :
        m \in SquareMatrices({0, 1}, {1, 2}), decay \in {1, 2},
        T \in {1, 4}}
    \cup
    {Obj("TraditionalGraph", m, 2, decay, T, pre, <<>>, PDen,
         NoGamma, "none", <<>>) :
        m \in SquareMatrices({0, ONE}, {0, ONE \div 2}),
        decay \in {None}, T \in {1, 4}, pre \in {"affinity", "adjacency"}}

\* the distance to the knn-th neighbour is positive in every row
TraditionalAccepted(o) ==
    o.precomputed = "distance" =>
        \A i \in DOMAIN o.data : KthSmallest(o.data[i], o.knn) > 0

\* gamma: '+', '*', a scalar in [0, 1] or a symmetric m x m matrix with
\* entries in [0, 1]
Gammas(m) ==
    {[kind |-> "+", val |-> 0], [kind |-> "*", val |-> 0]}
    \cup {[kind |-> "scalar", val |-> v] : v \in {0, 1, PDen}}
    \cup {[kind |-> "matrix", val |-> v] :
            v \in {w \in [0 .. m - 1 -> [0 .. m - 1 -> {0, PDen}]] :
                     \A i, j \in 0 .. m - 1 : w[i][j] = w[j][i]}}

\* batch labels of n samples: at least two distinct values
SampleIdxs(n, labels) ==
    {s \in [1 .. n -> labels] : Cardinality({s[a] : a \in 1 .. n}) >= 2}

\* the data of the MNN graphs: four samples, evenly or unevenly spaced
MnnData == {<<0, 1, 2, 3>>, <<0, 1, 3, 4>>, <<0, 2, 3, 4>>}

\* MNNGraph.__init__ accepts every beta, every adaptive_k and the gammas
\* above; knn_args are the keyword arguments kept for the subgraphs, and
\* every graph of the model is constructed with an explicit decay.  Three
\* families: every gamma over two batches labelled 0 and 1; every labelling
\* with up to three labels; alpha-decay subgraphs.
MnnGraphs ==
    {Obj("MNNGraph", pts, knn, None, 0, "None", sidx, beta, gamma, "none",
         [decay |-> None]) :
        pts \in MnnData, knn \in 1 .. 2, sidx \in SampleIdxs(4, 0 .. 1),
        beta \in {PDen \div 2, PDen}, gamma \in Gammas(2)}
    \cup
    {Obj("MNNGraph", pts, 1, None, 0, "None", sidx, PDen, gamma, ak,
         [decay |-> None]) :
        pts \in {<<0, 1, 3, 4>>}, sidx \in SampleIdxs(4, 0 .. 2),
        gamma \in {g0 \in Gammas(2) : g0.kind \in {"scalar", "matrix"}},
        ak \in {"min", "mean", "sqrt", "none"}}
    \cup
    {Obj("MNNGraph", pts, 2, None, 0, "None", sidx, beta, gamma, "sqrt",
         [decay |-> 1, thresh |-> T]) :
        pts \in MnnData, sidx \in SampleIdxs(4, 0 .. 1),
        beta \in {PDen \div 2, PDen},
        gamma \in {g0 \in Gammas(2) : g0.kind # "matrix"}, T \in {1, 4}}

\* the keyword arguments handed to every subgraph (thresh is read only
\* together with decay)
ArgDecay(o) == IF "decay" \in DOMAIN o.knn_args THEN o.knn_args.decay ELSE None
ArgThresh(o) == IF "thresh" \in DOMAIN o.knn_args THEN o.knn_args.thresh ELSE 0

\* graph = Graph(data, n_pca=None, knn=self.weighted_knn[i],
\* initialize=False, **(self.knn_args)) for every batch i
MnnSubgraphs(o) ==
    [b \in 1 .. NumBatches(o.sample_idx) |->
        [data |-> SubgraphData(o.data, o.sample_idx, b - 1),
         knn |-> WeightKnn(o.sample_idx, o.knn, o.adaptive_k, b - 1),
         args |-> o.knn_args]]

\* a matrix gamma has the shape (batches, batches); with alpha decay every
\* per-batch neighbour count is at least 2 (positive bandwidths)
MnnAccepted(o) ==
    /\ o.gamma.kind = "matrix" => NumBatches(o.sample_idx) = 2
    /\ ArgDecay(o) # None =>
          \A i \in 0 .. NumBatches(o.sample_idx) - 1 :
              WeightKnn(o.sample_idx, o.knn, o.adaptive_k, i) >= 2

Unbuilt == [status |-> "unbuilt", K |-> <<>>]

\* no call of build_kernel_to_data is running
Idle == [pc |-> "idle", st |-> <<>>, radius_queries |-> 0, K |-> <<>>]

\* a landmark attribute that is not set; a set one records the n_landmark
\* and n_svd it was computed with
Absent == [present |-> FALSE, n_landmark |-> None, n_svd |-> None]

NoLandmarks ==
    [landmark_op |-> Absent, transitions |-> Absent, clusters |-> Absent]

\* the state a call starts from
Snapshot ==
    [g |-> g, kernel |-> kernel, subgraphs |-> subgraphs,
     landmark |-> landmark]

\* no set_params and no landmark call was made yet
NoCall ==
    [op |-> "none", params |-> <<>>, raised |-> "none", ret |-> Absent,
     count |-> 0, before |-> Snapshot]

\* ------------------------------------------------- kernel specification
InitKernel ==
    /\ \/ g \in {o \in KnnGraphs : KnnAccepted(o)}
       \/ g \in TraditionalRaw
       \/ g \in {o \in TraditionalPrecomputed : TraditionalAccepted(o)}
       \/ g \in {o \in MnnGraphs : MnnAccepted(o)}
    /\ tie \in Ties
    /\ g.cls = "TraditionalGraph" => tie = "low"
    /\ kernel = Unbuilt
    /\ query = <<>>
    /\ search = Idle
    /\ subgraphs = <<>>
    /\ landmark = NoLandmarks
    /\ call = NoCall

\* kNNGraph.build_kernel()
BuildKnn ==
    /\ g.cls = "kNNGraph"
    /\ kernel.status = "unbuilt"
    /\ kernel' = [status |-> "built",
                  K |-> KnnBuildKernel(g.data, g.knn, g.decay, g.thresh, tie)]
    /\ UNCHANGED <<g, tie, query, search, subgraphs, landmark, call>>

\* TraditionalGraph.build_kernel()
BuildTraditional ==
    /\ g.cls = "TraditionalGraph"
    /\ kernel.status = "unbuilt"
    /\ kernel' = [status |-> "built",
                  K |-> TraditionalBuildKernel(g.data, g.precomputed, g.knn,
                                               g.decay, g.thresh)]
    /\ UNCHANGED <<g, tie, query, search, subgraphs, landmark, call>>

\* MNNGraph.build_kernel(): the subgraphs are created first, one per batch,
\* then the blocks are computed and symmetrized
BuildMnn ==
    /\ g.cls = "MNNGraph"
    /\ kernel.status = "unbuilt"
    /\ subgraphs' = MnnSubgraphs(g)
    /\ kernel' =
         IF MnnBuildRaises(g.sample_idx, g.knn, g.adaptive_k)
         THEN [status |-> "raised", K |-> <<>>]
         ELSE [status |-> "built",
               K |-> MnnBuildKernel(g.data, g.sample_idx, g.knn, g.adaptive_k,
                                    g.beta, g.gamma, ArgDecay(g),
                                    ArgThresh(g), tie)]
    /\ UNCHANGED <<g, tie, query, search, landmark, call>>

NextKernel == BuildKnn \/ BuildTraditional \/ BuildMnn

SpecKernel == InitKernel /\ [][NextKernel]_vars


\* ------------------------------------------- build_kernel_to_data, stepwise
\* samples on both sides of the origin: nl of them on the left at the
\* distances a, a + 1, ... and nr on the right at the distances b, b + 1, ...
DataAround(a, nl, b, nr) ==
    [k \in 1 .. (nl + nr) |->
        IF k <= nl THEN 0 - (a + k - 1) ELSE b + (k - nl) - 1]

\* the numbers of samples on the two sides
Sides ==
    {<<SideSmall, SideSmall>>, <<SideSmall, SideSmall + 1>>,
     <<SideLarge, SideLarge>>}

\* alpha-decay kNN graphs whose data outnumbers the first search
SearchGraphs ==
    {Obj("kNNGraph", DataAround(a, sd[1], a + off, sd[2]), knn, dt[1], dt[2],
         "None", <<>>, PDen, NoGamma, "none", <<>>) :
        a \in {2, 5, 10}, off \in {0, 1}, sd \in Sides, knn \in 1 .. 2,
        dt \in {<<1, 2>>, <<1, 3>>, <<2, 4>>}}

\* a point far to the left of all samples
FarPoint == 0 - FarOffset

\* new points: the origin (between the two sides, on no sample), a far
\* point, both, and ten rows of which one is far
Queries ==
    {<<0>>, <<FarPoint>>, <<0, FarPoint>>,
     [r \in 1 .. UpdateDivisor |-> IF r = 1 THEN FarPoint ELSE 0]}

InitSearch ==
    /\ g \in SearchGraphs
    /\ tie \in Ties
    /\ kernel = Unbuilt
    /\ query \in Queries
    /\ search = Idle
    /\ subgraphs = <<>>
    /\ landmark = NoLandmarks
    /\ call = NoCall

\* line 236: bandwidth = distances[:, knn - 1] reads a column the first
\* query did not return when knn exceeds search_knn = min(knn * 20, n)
BandwidthOutOfBounds(pts, knn) == knn > Min2(knn * SearchFactor, Len(pts))

\* lines 229-242: the first query with search_knn = min(knn * 20, n)
StartSearch ==
    /\ search.pc = "idle"
    /\ search' =
         IF BandwidthOutOfBounds(g.data, g.knn)
         THEN [search EXCEPT !.pc = "raised"]
         ELSE [search EXCEPT
                 !.pc = "loop",
                 !.st = InitialSearch(g.data, query, g.knn, g.decay,
                                      g.thresh, tie)]
    /\ UNCHANGED <<g, tie, kernel, query, subgraphs, landmark, call>>

\* lines 246-259: one pass of the while loop
SearchLoop ==
    /\ search.pc = "loop"
    /\ LoopCond(g.data, query, search.st)
    /\ search' = [search EXCEPT
          !.st = SearchPass(g.data, query, g.knn, g.decay, g.thresh, tie,
                            search.st)]
    /\ UNCHANGED <<g, tie, kernel, query, subgraphs, landmark, call>>

\* lines 260-287: the loop has ended; one radius query if rows are still
\* unresolved, then the kernel is assembled and thresholded
FinishSearch ==
    /\ search.pc = "loop"
    /\ ~LoopCond(g.data, query, search.st)
    /\ search' = [search EXCEPT
          !.pc = "done",
          !.radius_queries = IF search.st.update_idx # {} THEN 1 ELSE 0,
          !.K = DecayKernel(g.data, query, g.knn, g.decay, g.thresh, tie,
                            search.st)]
    /\ UNCHANGED <<g, tie, kernel, query, subgraphs, landmark, call>>

NextSearch == StartSearch \/ SearchLoop \/ FinishSearch

SpecSearch == InitSearch /\ [][NextSearch]_vars

\* alpha-decay kNN graphs on one to three samples, and graphs whose data
\* outnumbers the first search
EscalateGraphs ==
    {Obj("kNNGraph", pts, knn, 1, 2, "None", <<>>, PDen, NoGamma, "none",
         <<>>) :
        pts \in {<<1>>, <<1, 2>>, <<1, 2, 4>>}, knn \in 1 .. 3}
    \cup
    {o \in SearchGraphs :
        o.data[1] = 0 - 2 /\ o.decay = 1 /\ o.thresh = 2}

InitEscalate ==
    /\ g \in EscalateGraphs
    /\ tie \in Ties
    /\ kernel = Unbuilt
    /\ query \in Queries
    /\ search = Idle
    /\ subgraphs = <<>>
    /\ landmark = NoLandmarks
    /\ call = NoCall

\* a call of build_kernel_to_data runs on until it returns or raises
SpecEscalate == InitEscalate /\ [][NextSearch]_vars /\ WF_vars(NextSearch)

\* ----------------------------------------------------------- set_params
\* the exceptions a call can end with
CannotUpdate == "ValueError: Cannot update"
AmbiguousTruth == "ValueError: truth value of an array is ambiguous"
NotAMapping == "TypeError: argument after ** must be a mapping"
NoAttribute == "AttributeError"

Has(params, name) == name \in DOMAIN params

\* the value a parameter of graph o holds: an MNNGraph keeps the keyword
\* arguments of its subgraphs in knn_args
Current(o, name) ==
    IF o.cls = "MNNGraph" /\ name \in DOMAIN o.knn_args
    THEN o.knn_args[name]
    ELSE o[name]

\* a value of the parameter other than v
Other(name, v) ==
    CASE name = "distance" -> "cosine"
      [] name = "precomputed" -> IF v = "distance" THEN "affinity"
                                 ELSE "distance"
      [] name = "adaptive_k" -> IF v = "none" THEN "sqrt" ELSE "none"
      [] name = "gamma" ->
            IF v.kind = "matrix"
            THEN [v EXCEPT !.val = [i \in DOMAIN v.val |->
                                      [j \in DOMAIN v.val |-> PDen \div 2]]]
            ELSE IF v.kind = "scalar" /\ v.val = 1
                 THEN [kind |-> "scalar", val |-> 2]
            ELSE [kind |-> "scalar", val |-> 1]
      [] OTHER -> v + 1

\* the values a call hands over for a parameter: the current one and
\* another one
ParamVals(o, name) == {Current(o, name), Other(name, Current(o, name))}

\* the keyword arguments of a call: one or two parameters
Params(n1, v1, n2, v2) == (n1 :> v1) @@ (n2 :> v2)

\* DataGraph.set_params reads n_pca only, which no call of the model hands
\* over
DataGraphRaises(params) == Has(params, "n_pca")

\* lines 110-119: the checks of kNNGraph.set_params
KnnSetParamsRaises(o, params) ==
    \/ Has(params, "knn") /\ params["knn"] # o.knn
    \/ Has(params, "decay") /\ params["decay"] # o.decay
    \/ Has(params, "distance") /\ params["distance"] # o.distance
    \/ Has(params, "thresh") /\ params["thresh"] # o.thresh /\ o.decay # 0

\* lines 120-125: the assignments of kNNGraph.set_params
KnnSetParamsAssign(o, params) ==
    [o EXCEPT
        !.n_jobs = IF Has(params, "n_jobs") THEN params["n_jobs"] ELSE @,
        !.random_state = IF Has(params, "random_state")
                         THEN params["random_state"] ELSE @,
        !.verbose = IF Has(params, "verbose") THEN params["verbose"] ELSE @]

\* the record of a call that has ended; count is the number of set_params
\* calls made so far
Ended(op, params, raised, ret) ==
    [op |-> op, params |-> params, raised |-> raised, ret |-> ret,
     count |-> IF op = "set_params" THEN call.count + 1 ELSE call.count,
     before |-> Snapshot]

KnnParamNames ==
    {"knn", "decay", "distance", "thresh", "n_jobs", "random_state",
     "verbose"}

\* kNNGraph.set_params(**params)
SetParamsKnn ==
    /\ g.cls = "kNNGraph"
    /\ g.n_landmark = None
    /\ call.count < MaxCalls
    /\ \E n1, n2 \in KnnParamNames :
         \E v1 \in ParamVals(g, n1), v2 \in ParamVals(g, n2) :
            LET params == Params(n1, v1, n2, v2)
                raises == KnnSetParamsRaises(g, params)
                          \/ DataGraphRaises(params)
            IN  /\ g' = IF raises THEN g ELSE KnnSetParamsAssign(g, params)
                /\ call' = Ended("set_params", params,
                                 IF raises THEN CannotUpdate ELSE "none",
                                 Absent)
    /\ UNCHANGED <<tie, kernel, query, search, subgraphs, landmark>>

\* lines 656-669: the checks of TraditionalGraph.set_params
TraditionalSetParamsRaises(o, params) ==
    \/ Has(params, "precomputed") /\ params["precomputed"] # o.precomputed
    \/ /\ Has(params, "distance") /\ params["distance"] # o.distance
       /\ o.precomputed # "None"
    \/ Has(params, "knn") /\ params["knn"] # o.knn /\ o.precomputed # "None"
    \/ /\ Has(params, "decay") /\ params["decay"] # o.decay
       /\ o.precomputed # "None"

TraditionalParamNames ==
    {"precomputed", "distance", "knn", "decay", "thresh", "n_jobs"}

\* TraditionalGraph.set_params(**params): no attribute is assigned
SetParamsTraditional ==
    /\ g.cls = "TraditionalGraph"
    /\ call.count < MaxCalls
    /\ \E n1, n2 \in TraditionalParamNames :
         \E v1 \in ParamVals(g, n1), v2 \in ParamVals(g, n2) :
            LET params == Params(n1, v1, n2, v2)
                raises == TraditionalSetParamsRaises(g, params)
                          \/ DataGraphRaises(params)
            IN  call' = Ended("set_params", params,
                              IF raises THEN CannotUpdate ELSE "none",
                              Absent)
    /\ UNCHANGED <<g, tie, kernel, query, search, subgraphs, landmark>>

\* `params['gamma'] != self.gamma` used as a condition: the comparison with
\* a matrix is elementwise and has no truth value
GammaAmbiguous(o, params) ==
    Has(params, "gamma")
    /\ (params["gamma"].kind = "matrix" \/ o.gamma.kind = "matrix")

\* lines 937-941: knn, decay, distance and thresh are looked up in knn_args
KnnArgRejected(o, params, arg) ==
    Has(params, arg)
    /\ (arg \notin DOMAIN o.knn_args \/ params[arg] # o.knn_args[arg])

\* lines 925-947: how MNNGraph.set_params ends; built tells whether
\* build_kernel() has created self.subgraphs
MnnSetParamsRaised(o, params, built) ==
    IF Has(params, "beta") /\ params["beta"] # o.beta THEN CannotUpdate
    ELSE IF GammaAmbiguous(o, params) THEN AmbiguousTruth
    ELSE IF Has(params, "gamma") /\ params["gamma"] # o.gamma
         THEN CannotUpdate
    ELSE IF Has(params, "adaptive_k")
            /\ params["adaptive_k"] # o.adaptive_k
         THEN CannotUpdate
    ELSE IF \E arg \in {"knn", "decay", "distance", "thresh"} :
                KnnArgRejected(o, params, arg)
         THEN CannotUpdate
    ELSE IF ~built THEN NoAttribute
    ELSE NotAMapping

KnnOtherArgs == {"n_jobs", "random_state", "verbose"}

\* lines 942-944: self.knn_args[arg] = params[arg] for the whitelisted args
MnnUpdateKnnArgs(o, params) ==
    [o EXCEPT !.knn_args =
        [a \in DOMAIN o.knn_args \cup (DOMAIN params \cap KnnOtherArgs) |->
            IF a \in DOMAIN params \cap KnnOtherArgs THEN params[a]
            ELSE o.knn_args[a]]]

MnnParamNames ==
    {"knn", "decay", "thresh", "beta", "gamma", "adaptive_k", "n_jobs",
     "random_state", "verbose"}

\* MNNGraph.set_params(**params): the checks, the update of knn_args, then
\* `g.set_params(**knn_other_args)` on every subgraph with knn_other_args a
\* list
SetParamsMnn ==
    /\ g.cls = "MNNGraph"
    /\ call.count < MaxCalls
    /\ \E n1, n2 \in MnnParamNames :
         \E v1 \in ParamVals(g, n1), v2 \in ParamVals(g, n2) :
            LET params == Params(n1, v1, n2, v2)
                raised == MnnSetParamsRaised(g, params,
                                             kernel.status # "unbuilt")
            IN  /\ g' = IF raised \in {CannotUpdate, AmbiguousTruth} THEN g
                        ELSE MnnUpdateKnnArgs(g, params)
                /\ call' = Ended("set_params", params, raised, Absent)
    /\ UNCHANGED <<tie, kernel, query, search, subgraphs, landmark>>

\* the graphs of the set_params specification
ParamGraphs ==
    {Obj("kNNGraph", <<0, 1, 3>>, 2, dt[1], dt[2], "None", <<>>, PDen,
         NoGamma, "none", <<>>) : dt \in {<<None, 4>>, <<0, 0>>, <<1, 2>>}}
    \cup
    {Obj("TraditionalGraph", <<0, 1, 3>>, 2, 1, 4, "None", <<>>, PDen,
         NoGamma, "none", <<>>)}
    \cup
    {Obj("MNNGraph", <<0, 1, 3, 4>>, 2, None, 0, "None", <<0, 0, 1, 1>>,
         PDen \div 2, gamma, "none", args) :
        gamma \in {[kind |-> "+", val |-> 0], [kind |-> "scalar", val |-> 1],
                   [kind |-> "matrix",
                    val |-> [i \in 0 .. 1 |-> [j \in 0 .. 1 |-> PDen]]]},
        args \in {[decay |-> None, thresh |-> 4, n_jobs |-> 1],
                  [decay |-> 1, thresh |-> 2, n_jobs |-> 1]}}

ParamPrecomputed ==
    {Obj("TraditionalGraph", <<<<0, 1, 2>>, <<1, 0, 1>>, <<2, 1, 0>>>>, 2, 1,
         4, "distance", <<>>, PDen, NoGamma, "none", <<>>),
     Obj("TraditionalGraph",
         <<<<ONE, 0, 0>>, <<0, ONE, ONE>>, <<0, ONE, ONE>>>>, 2, None, 4,
         "affinity", <<>>, PDen, NoGamma, "none", <<>>)}

InitParams ==
    /\ \/ g \in ParamGraphs
       \/ g \in ParamPrecomputed
    /\ tie = "low"
    /\ kernel = Unbuilt
    /\ query = <<>>
    /\ search = Idle
    /\ subgraphs = <<>>
    /\ landmark = NoLandmarks
    /\ call = NoCall

NextParams ==
    \/ BuildKnn
    \/ BuildTraditional
    \/ BuildMnn
    \/ SetParamsKnn
    \/ SetParamsTraditional
    \/ SetParamsMnn

SpecParams == InitParams /\ [][NextParams]_vars


\* ------------------------------------------------------ MNNGraph.__init__
ConfigError == "ValueError"

\* the sample_idx argument: None, or one label per entry
SampleIdxArgs ==
    {[given |-> FALSE, val |-> <<>>]}
    \cup {[given |-> TRUE, val |-> v] :
            v \in UNION {[1 .. len -> 0 .. 2] : len \in 3 .. 4}}

\* the gamma argument: a string, a number (in units of 1 / PDen, or nan),
\* None, or an array with rows x cols entries
SquareGamma(m, vals) ==
    {[kind |-> "matrix", rows |-> m, cols |-> m, val |-> v] :
        v \in [0 .. m - 1 -> [0 .. m - 1 -> vals]]}

GammaInitArgs ==
    {[kind |-> k, rows |-> 0, cols |-> 0, val |-> 0] :
        k \in {"+", "*", "max", "nan", "None"}}
    \cup {[kind |-> "scalar", rows |-> 0, cols |-> 0, val |-> v] :
            v \in {0 - 1, 0, 2, PDen, PDen + 1}}
    \cup SquareGamma(2, {0, PDen})
    \cup SquareGamma(2, {0 - 1}) \cup SquareGamma(2, {PDen + 1})
    \cup SquareGamma(1, {0}) \cup SquareGamma(3, {0})
    \cup {[kind |-> "matrix", rows |-> 1, cols |-> 2,
           val |-> [i \in 0 .. 0 |-> [j \in 0 .. 1 |-> 0]]]}

GammaEntries(gamma) ==
    {gamma.val[i][j] : i \in 0 .. gamma.rows - 1, j \in 0 .. gamma.cols - 1}

\* lines 811-819: the checks of sample_idx.  np.unique(None) has the one
\* value None, so the lines before the checks run through
SampleIdxRejected(data, sample_idx) ==
    \/ ~sample_idx.given
    \/ Len(sample_idx.val) # Len(data)
    \/ NumBatches(sample_idx.val) = 1

\* lines 821-849: the checks of gamma, for an accepted sample_idx.  Every
\* comparison with nan is false.  None is neither a string nor a number and
\* is taken for a matrix: its shape () differs from (m, m) and formatting
\* the message reads gamma.shape, which None does not have.
GammaInitRaises(sample_idx, gamma) ==
    LET m == NumBatches(sample_idx.val)
    IN  IF gamma.kind \in {"+", "*"} THEN "none"
        ELSE IF gamma.kind = "max" THEN ConfigError
        ELSE IF gamma.kind = "scalar"
        THEN IF gamma.val < 0 \/ gamma.val > PDen THEN ConfigError
             ELSE "none"
        ELSE IF gamma.kind = "nan" THEN "none"
        ELSE IF gamma.kind = "None" THEN NoAttribute
        ELSE IF gamma.rows # m \/ gamma.cols # m THEN ConfigError
        ELSE IF SetMax(GammaEntries(gamma)) > PDen
                \/ SetMin(GammaEntries(gamma)) < 0 THEN ConfigError
        ELSE IF \E i, j \in 0 .. m - 1 : gamma.val[i][j] # gamma.val[j][i]
        THEN ConfigError
        ELSE "none"

\* line 851: DataGraph.__init__ takes the data and the remaining keywords
DataGraphInitRaises(data) == "none"

MnnInitRaises(data, sample_idx, gamma) ==
    IF SampleIdxRejected(data, sample_idx) THEN ConfigError
    ELSE IF GammaInitRaises(sample_idx, gamma) # "none"
    THEN GammaInitRaises(sample_idx, gamma)
    ELSE DataGraphInitRaises(data)

\* the arguments of a construction
InitArgs ==
    {[cls |-> "MNNGraph", data |-> <<0, 1, 3, 4>>, sample_idx |-> s,
      gamma |-> gm, knn |-> 1, beta |-> PDen, adaptive_k |-> "none",
      knn_args |-> [decay |-> None]] :
        s \in SampleIdxArgs, gm \in GammaInitArgs}

\* MNNGraph(data, sample_idx, knn, beta, gamma, adaptive_k, **kwargs): g
\* holds the arguments, and the attributes once the call has returned
MnnInit ==
    /\ call.op = "none"
    /\ call' = Ended("__init__", <<>>,
                     MnnInitRaises(g.data, g.sample_idx, g.gamma), Absent)
    /\ UNCHANGED <<g, tie, kernel, query, search, subgraphs, landmark>>

InitConstruct ==
    /\ g \in InitArgs
    /\ tie = "low"
    /\ kernel = Unbuilt
    /\ query = <<>>
    /\ search = Idle
    /\ subgraphs = <<>>
    /\ landmark = NoLandmarks
    /\ call = NoCall

NextConstruct == MnnInit

SpecConstruct == InitConstruct /\ [][NextConstruct]_vars

\* ------------------------------------------ MNNGraph.build_kernel_to_data
GammaNotProvided == "ValueError: gamma"
ArrayNeighbours == "n_neighbors is an array"

\* the gamma argument of build_kernel_to_data: None, or one value per entry
NoGammaArg == [given |-> FALSE, val |-> <<>>]

GammaArgs ==
    {NoGammaArg}
    \cup {[given |-> TRUE, val |-> v] :
            v \in UNION {[1 .. len -> {0, PDen}] : len \in 1 .. 3}}

\* lines 1070-1078: a matrix self.gamma needs a gamma argument with one
\* value per batch
GammaArgRejected(o, gamma) ==
    /\ o.gamma.kind = "matrix"
    /\ \/ ~gamma.given
       \/ Len(gamma.val) # NumBatches(o.sample_idx)

\* y_knn = self._weight_knn(sample_size=len(Y)): sample_size is not read
\* again once it is given, and the result is the array of the per-batch
\* counts
YKnn(o, Y) ==
    [b \in 1 .. NumBatches(o.sample_idx) |->
        WeightKnn(o.sample_idx, o.knn, o.adaptive_k, b - 1)]

\* lines 1070-1090: how the call ends.  Y_graph.build_kernel_to_data(
\* X.data_nu, knn=y_knn) hands the array y_knn to the neighbour search as
\* its neighbour count, which the search rejects; a graph has two batches
\* or more, so y_knn is never unpacked to a number (line 886)
MnnToDataRaised(o, Y, gamma, built) ==
    IF GammaArgRejected(o, gamma) THEN GammaNotProvided
    ELSE IF ~built THEN NoAttribute
    ELSE IF Len(YKnn(o, Y)) # 1 THEN ArrayNeighbours
    ELSE "none"

\* new points Y
NewPoints == {<<2>>, <<0, 4>>, <<1, 2, 5>>}

\* MNNGraph.build_kernel_to_data(Y, gamma)
BuildKernelToDataMnn ==
    /\ g.cls = "MNNGraph"
    /\ \E Y \in NewPoints, gamma \in GammaArgs :
         /\ query' = Y
         /\ call' = Ended("build_kernel_to_data", [gamma |-> gamma],
                          MnnToDataRaised(g, Y, gamma,
                                          kernel.status # "unbuilt"),
                          Absent)
    /\ UNCHANGED <<g, tie, kernel, search, subgraphs, landmark>>

\* the graphs of the out-of-sample specification
ExtendGraphs ==
    {Obj("MNNGraph", pts, 1, None, 0, "None", sidx, PDen, gamma, "none",
         [decay |-> None]) :
        pts \in MnnData, sidx \in {<<0, 0, 1, 1>>, <<0, 1, 0, 1>>},
        gamma \in {[kind |-> "+", val |-> 0], [kind |-> "scalar", val |-> 1],
                   [kind |-> "matrix",
                    val |-> [i \in 0 .. 1 |-> [j \in 0 .. 1 |-> PDen]]],
                   [kind |-> "matrix",
                    val |-> [i \in 0 .. 1 |-> [j \in 0 .. 1 |-> 0]]]}}

InitExtend ==
    /\ g \in ExtendGraphs
    /\ tie = "low"
    /\ kernel = Unbuilt
    /\ query = <<>>
    /\ search = Idle
    /\ subgraphs = <<>>
    /\ landmark = NoLandmarks
    /\ call = NoCall

NextExtend == BuildMnn \/ BuildKernelToDataMnn

SpecExtend == InitExtend /\ [][NextExtend]_vars

\* -------------------------------------------------------- LandmarkGraph
\* a landmark attribute computed with the current n_landmark and n_svd
Computed(o) ==
    [present |-> TRUE, n_landmark |-> o.n_landmark, n_svd |-> o.n_svd]

\* how a run of build_landmark_op() ends: it returns, a library call raises
\* before self._clusters is assigned (randomized_svd, fit_predict), or one
\* raises after it (the sums, normalize, the product of pmn and pnm)
BuildOutcomes == {"returns", "raises_before_clusters", "raises_after_clusters"}

\* build_landmark_op(): _clusters is assigned at line 456, _landmark_op and
\* _transitions at lines 479-480
BuildLandmarkOp(o, lm, outcome) ==
    CASE outcome = "returns" ->
            [landmark_op |-> Computed(o), transitions |-> Computed(o),
             clusters |-> Computed(o)]
      [] outcome = "raises_after_clusters" ->
            [lm EXCEPT !.clusters = Computed(o)]
      [] OTHER -> lm

BuildRaised(outcome) == IF outcome = "returns" THEN "none" ELSE "Exception"

\* build_landmark_op() reads self.kernel and self.diff_op first: the kernel
\* is built if it was not
KernelOnAccess ==
    IF kernel.status = "unbuilt"
    THEN [status |-> "built",
          K |-> KnnBuildKernel(g.data, g.knn, g.decay, g.thresh, tie)]
    ELSE kernel

\* _reset_landmarks(): the three `del` run in order inside one try; the
\* first missing attribute ends them
ResetLandmarks(lm) ==
    IF ~lm.landmark_op.present THEN lm
    ELSE IF ~lm.transitions.present THEN [lm EXCEPT !.landmark_op = Absent]
    ELSE IF ~lm.clusters.present
         THEN [lm EXCEPT !.landmark_op = Absent, !.transitions = Absent]
    ELSE NoLandmarks

\* the properties landmark_op and transitions: return the cached attribute,
\* or build the landmark operator and return it
Access(attr) ==
    /\ g.n_landmark # None
    /\ IF landmark[attr].present
       THEN /\ call' = Ended(attr, <<>>, "none", landmark[attr])
            /\ UNCHANGED <<kernel, landmark>>
       ELSE \E outcome \in BuildOutcomes :
              LET lm == BuildLandmarkOp(g, landmark, outcome)
              IN  /\ landmark' = lm
                  /\ kernel' = KernelOnAccess
                  /\ call' = Ended(attr, <<>>, BuildRaised(outcome),
                                   IF outcome = "returns" THEN lm[attr]
                                   ELSE Absent)
    /\ UNCHANGED <<g, tie, query, search, subgraphs>>

AccessLandmarkOp == Access("landmark_op")

AccessTransitions == Access("transitions")

\* a direct call of build_landmark_op()
CallBuildLandmarkOp ==
    /\ g.n_landmark # None
    /\ \E outcome \in BuildOutcomes :
         /\ landmark' = BuildLandmarkOp(g, landmark, outcome)
         /\ call' = Ended("build_landmark_op", <<>>, BuildRaised(outcome),
                          Absent)
    /\ kernel' = KernelOnAccess
    /\ UNCHANGED <<g, tie, query, search, subgraphs>>

\* lines 372-378: n_landmark and n_svd are assigned as they are read
LandmarkAssign(o, params) ==
    [o EXCEPT
        !.n_landmark = IF Has(params, "n_landmark") THEN params["n_landmark"]
                       ELSE @,
        !.n_svd = IF Has(params, "n_svd") THEN params["n_svd"] ELSE @]

\* reset_landmarks of LandmarkGraph.set_params
ResetFlag(o, params) ==
    \/ Has(params, "n_landmark") /\ params["n_landmark"] # o.n_landmark
    \/ Has(params, "n_svd") /\ params["n_svd"] # o.n_svd

LandmarkParamNames == {"n_landmark", "n_svd", "knn", "n_jobs"}

\* LandmarkGraph.set_params(**params) on a landmark graph over a kNNGraph:
\* super().set_params is kNNGraph.set_params
SetParamsLandmark ==
    /\ g.n_landmark # None
    /\ call.count < MaxCalls
    /\ \E n1, n2 \in LandmarkParamNames :
         \E v1 \in ParamVals(g, n1), v2 \in ParamVals(g, n2) :
            LET params == Params(n1, v1, n2, v2)
                g1 == LandmarkAssign(g, params)
                raises == KnnSetParamsRaises(g1, params)
                          \/ DataGraphRaises(params)
            IN  /\ g' = IF raises THEN g1 ELSE KnnSetParamsAssign(g1, params)
                /\ landmark' = IF ~raises /\ ResetFlag(g, params)
                               THEN ResetLandmarks(landmark) ELSE landmark
                /\ call' = Ended("set_params", params,
                                 IF raises THEN CannotUpdate ELSE "none",
                                 Absent)
    /\ UNCHANGED <<tie, kernel, query, search, subgraphs>>

\* LandmarkGraph.__init__ rejects n_landmark >= n_samples
LandmarkGraphs ==
    {[Obj("kNNGraph", <<0, 1, 3, 4>>, 2, None, 4, "None", <<>>, PDen,
          NoGamma, "none", <<>>)
        EXCEPT !.n_landmark = nl, !.n_svd = ns] :
        nl \in 2 .. 3, ns \in 1 .. 2}

InitLandmark ==
    /\ g \in LandmarkGraphs
    /\ tie = "low"
    /\ kernel = Unbuilt
    /\ query = <<>>
    /\ search = Idle
    /\ subgraphs = <<>>
    /\ landmark = NoLandmarks
    /\ call = NoCall

NextLandmark ==
    \/ BuildKnn
    \/ AccessLandmarkOp
    \/ AccessTransitions
    \/ CallBuildLandmarkOp
    \/ SetParamsLandmark

SpecLandmark == InitLandmark /\ [][NextLandmark]_vars

\* ------------------------------------- build_landmark_op, the matrices
\* landmarks = np.unique(self._clusters): the cluster ids that were
\* assigned, in increasing order
Landmarks(clusters) ==
    LET ids == {clusters[a] : a \in DOMAIN clusters}
    IN  [r \in 1 .. Cardinality(ids) |->
            CHOOSE i \in ids : Cardinality({x \in ids : x < i}) = r - 1]

\* np.sum(self.kernel[self._clusters == i, :], axis=0) for i in landmarks
ClusterSums(K, clusters) ==
    LET lms == Landmarks(clusters)
    IN  [r \in DOMAIN lms |-> [c \in DOMAIN K |->
            SumSeq([k \in 1 .. Len(MaskRows(clusters, lms[r])) |->
                       K[MaskRows(clusters, lms[r])[k]][c]])]]

\* normalize(M, norm='l1', axis=1): every row is divided by the sum of its
\* entries, a row that sums to zero by 1.  A row is kept as its numerators
\* and their common denominator.
NormalizeL1(M) ==
    [r \in DOMAIN M |->
        [num |-> M[r],
         den |-> IF SumSeq(M[r]) = 0 THEN 1 ELSE SumSeq(M[r])]]

\* lines 456-480 on kernel K with the cluster assignment of fit_predict;
\* the product pmn.dot(pnm) is kept as its two factors
LandmarkMatrices(K, clusters) ==
    LET pmn == ClusterSums(K, clusters)
        pnm == Transpose(pmn, DOMAIN pmn, DOMAIN K)
    IN  [clusters |-> clusters,
         transitions |-> NormalizeL1(pnm),
         landmark_op |-> [pmn |-> NormalizeL1(pmn), pnm |-> NormalizeL1(pnm)]]

\* self.kernel of the host graph, built on the first access
HostKernel ==
    IF kernel.status # "unbuilt" THEN kernel
    ELSE [status |-> "built",
          K |-> IF g.cls = "kNNGraph"
                THEN KnnBuildKernel(g.data, g.knn, g.decay, g.thresh, tie)
                ELSE TraditionalBuildKernel(g.data, g.precomputed, g.knn,
                                            g.decay, g.thresh)]

\* build_landmark_op(); fit_predict may return any assignment of the
\* samples to the clusters 0 .. n_landmark - 1
BuildLandmarkMatrices ==
    /\ g.n_landmark # None
    /\ landmark = NoLandmarks
    /\ kernel' = HostKernel
    /\ \E clusters \in [DOMAIN g.data -> 0 .. g.n_landmark - 1] :
         landmark' = LandmarkMatrices(HostKernel.K,
                                      [a \in 1 .. Len(g.data) |-> clusters[a]])
    /\ call' = Ended("build_landmark_op", <<>>, "none", Absent)
    /\ UNCHANGED <<g, tie, query, search, subgraphs>>

\* landmark graphs over a kNNGraph and over a TraditionalGraph with a
\* precomputed affinity matrix
MatrixHosts ==
    {[Obj("kNNGraph", <<0, 1, 3, 4>>, knn, None, 4, "None", <<>>, PDen,
          NoGamma, "none", <<>>)
        EXCEPT !.n_landmark = nl, !.n_svd = 1] :
        knn \in 1 .. 2, nl \in 2 .. 3}
    \cup
    {[o EXCEPT !.n_landmark = 2, !.n_svd = 1] :
        o \in {p \in TraditionalPrecomputed :
                 p.precomputed = "affinity" /\ p.thresh = 4}}

InitMatrices ==
    /\ g \in MatrixHosts
    /\ tie = "low"
    /\ kernel = Unbuilt
    /\ query = <<>>
    /\ search = Idle
    /\ subgraphs = <<>>
    /\ landmark = NoLandmarks
    /\ call = NoCall

NextMatrices == BuildKnn \/ BuildTraditional \/ BuildLandmarkMatrices

SpecMatrices == InitMatrices /\ [][NextMatrices]_vars

\* -------------------------------------------------------------- get_params
\* DataGraph.get_params(): the parameters of the data
DataGraphGetParams(o) == [n_pca |-> None, random_state |-> o.random_state]

\* LandmarkGraph.get_params(), lines 346-352
LandmarkGetParams(o) ==
    [n_landmark |-> o.n_landmark, n_pca |-> None] @@ DataGraphGetParams(o)

\* kNNGraph.get_params(), lines 74-85; super() of a landmark graph is
\* LandmarkGraph
KnnGetParams(o) ==
    [knn |-> o.knn, decay |-> o.decay, distance |-> o.distance,
     thresh |-> o.thresh, n_jobs |-> o.n_jobs,
     random_state |-> o.random_state, verbose |-> o.verbose]
    @@ (IF o.n_landmark # None THEN LandmarkGetParams(o)
        ELSE DataGraphGetParams(o))

\* TraditionalGraph.get_params(), lines 627-635
TraditionalGetParams(o) ==
    [knn |-> o.knn, decay |-> o.decay, distance |-> o.distance,
     precomputed |-> o.precomputed] @@ DataGraphGetParams(o)

\* MNNGraph.get_params(), lines 890-897
MnnGetParams(o) ==
    o.knn_args @@ [beta |-> o.beta, gamma |-> o.gamma]
    @@ DataGraphGetParams(o)

GetParams(o) ==
    CASE o.cls = "kNNGraph" -> KnnGetParams(o)
      [] o.cls = "TraditionalGraph" -> TraditionalGetParams(o)
      [] o.cls = "MNNGraph" -> MnnGetParams(o)

\* g.get_params()
CallGetParams ==
    /\ call.op # "get_params"
    /\ call' = Ended("get_params", <<>>, "none", GetParams(g))
    /\ UNCHANGED <<g, tie, kernel, query, search, subgraphs, landmark>>

InitGet ==
    /\ \/ g \in ParamGraphs
       \/ g \in ParamPrecomputed
       \/ g \in LandmarkGraphs
    /\ tie = "low"
    /\ kernel = Unbuilt
    /\ query = <<>>
    /\ search = Idle
    /\ subgraphs = <<>>
    /\ landmark = NoLandmarks
    /\ call = NoCall

NextGet ==
    \/ CallGetParams
    \/ SetParamsKnn
    \/ SetParamsTraditional
    \/ SetParamsMnn
    \/ SetParamsLandmark

SpecGet == InitGet /\ [][NextGet]_vars

\* ---------------------------------------------------------- extend_to_data
\* new points handed to extend_to_data
ExtendPoints == {<<2>>, <<0, 4>>}

\* LandmarkGraph.extend_to_data(data): the kernel to the new points is
\* built first; then self._clusters is read as it is, without a build, so
\* a missing attribute raises AttributeError.  The result has one column per
\* value of np.unique(self._clusters) and is recorded as the cluster
\* assignment it was summed over.
ExtendToData ==
    /\ g.n_landmark # None
    /\ \E Y \in ExtendPoints : query' = Y
    /\ call' = IF landmark.clusters.present
               THEN Ended("extend_to_data", <<>>, "none", landmark.clusters)
               ELSE Ended("extend_to_data", <<>>, NoAttribute, Absent)
    /\ UNCHANGED <<g, tie, kernel, search, subgraphs, landmark>>

NextExtendLandmark ==
    \/ BuildKnn
    \/ AccessLandmarkOp
    \/ AccessTransitions
    \/ CallBuildLandmarkOp
    \/ SetParamsLandmark
    \/ ExtendToData

SpecExtendLandmark == InitLandmark /\ [][NextExtendLandmark]_vars

\* ---------------------------------------------------- LandmarkGraph.__init__
\* lines 333-336: n_landmark >= data.shape[0] is rejected; n_svd >=
\* data.shape[0] only warns
LandmarkInitRaises(data, n_landmark) ==
    IF n_landmark >= Len(data) THEN ConfigError
    ELSE DataGraphInitRaises(data)

\* the arguments of the construction of a landmark graph over a kNNGraph
LandmarkInitArgs ==
    {[Obj("kNNGraph", pts, knn, None, 4, "None", <<>>, PDen, NoGamma,
          "none", <<>>)
        EXCEPT !.n_landmark = nl, !.n_svd = ns] :
        pts \in {<<0, 1, 3>>, <<0, 1, 3, 4>>}, knn \in 1 .. 2,
        nl \in 1 .. 5, ns \in 1 .. 2}

\* LandmarkGraph(data, n_landmark, n_svd, **kwargs): g holds the arguments,
\* and the attributes once the call has returned
LandmarkInit ==
    /\ call.op = "none"
    /\ call' = Ended("__init__", <<>>,
                     LandmarkInitRaises(g.data, g.n_landmark), Absent)
    /\ UNCHANGED <<g, tie, kernel, query, search, subgraphs, landmark>>

\* set_params on a graph whose construction has returned
SetParamsConstructed ==
    /\ call.op = "__init__"
    /\ call.raised = "none"
    /\ SetParamsLandmark

InitLandmarkArgs ==
    /\ g \in LandmarkInitArgs
    /\ tie = "low"
    /\ kernel = Unbuilt
    /\ query = <<>>
    /\ search = Idle
    /\ subgraphs = <<>>
    /\ landmark = NoLandmarks
    /\ call = NoCall

NextLandmarkInit == LandmarkInit \/ SetParamsConstructed

SpecLandmarkInit == InitLandmarkArgs /\ [][NextLandmarkInit]_vars

\* ================================================================== claims
KIdx == DOMAIN kernel.K
Built == kernel.status = "built"

\* C1: the matrix returned by build_kernel() is symmetric, for every
\* builder and mode: K[i][j] = K[j][i] for all samples i, j.
C1_Symmetric ==
    Built => \A i, j \in KIdx : kernel.K[i][j] = kernel.K[j][i]

\* a built MNN kernel with a matrix gamma whose assembled blocks were not
\* symmetric before the symmetrization
C1_Witness ==
    /\ Built
    /\ g.cls = "MNNGraph"
    /\ g.gamma.kind = "matrix"
    /\ LET A == MnnAssemble(g.data, g.sample_idx, g.knn, g.adaptive_k,
                            g.beta, ArgDecay(g), ArgThresh(g), tie)
       IN  \E i, j \in KIdx : A[i][j] # A[j][i] /\ kernel.K[i][j] # 0

\* C2: the matrix returned by build_kernel() has K[i][i] = 1 for every
\* sample i, for every graph whose construction is accepted.
C2_UnitDiagonal ==
    Built => \A i \in KIdx : kernel.K[i][i] = ONE

\* the kernels C3 calls decay kernels
IsDecayKernel ==
    \/ g.cls = "kNNGraph" /\ g.decay # None /\ g.thresh # 0
    \/ g.cls = "TraditionalGraph" /\ g.precomputed \in {"None", "distance"}

\* C3: for decay kernels every entry of build_kernel() lies in [0, 1] and
\* no entry is nonzero and strictly below thresh.
C3_DecayThreshold ==
    (Built /\ IsDecayKernel) =>
        \A i, j \in KIdx :
            /\ kernel.K[i][j] \in 0 .. ONE
            /\ ~(kernel.K[i][j] # 0 /\ kernel.K[i][j] < ThreshVal(g.thresh))

\* j is among the knn nearest neighbours of i (self included)
IsNeighbour(i, j) == j \in Kneighbors(g.data, g.data[i], g.knn, tie)

\* C4: in kNNGraph binary mode every entry of build_kernel() is 0, 0.5 or
\* 1: 1 exactly for mutual neighbours, 0.5 exactly when the neighbour
\* relation holds in one direction only, 0 otherwise.
C4_BinaryEntries ==
    (Built /\ g.cls = "kNNGraph" /\ IsBinary(g.decay, g.thresh)) =>
        \A i, j \in KIdx :
            /\ kernel.K[i][j] \in {0, ONE \div 2, ONE}
            /\ kernel.K[i][j] = ONE <=> (IsNeighbour(i, j) /\ IsNeighbour(j, i))
            /\ kernel.K[i][j] = ONE \div 2 <=>
                   (IsNeighbour(i, j) /\ ~IsNeighbour(j, i))
                   \/ (~IsNeighbour(i, j) /\ IsNeighbour(j, i))

\* a binary kernel, built with decay set and thresh == 1, that holds a
\* mutual pair, a one-directional pair and an unrelated pair
C4_Witness ==
    /\ Built /\ g.cls = "kNNGraph" /\ g.decay # None /\ g.thresh = 0
    /\ \E i, j \in KIdx : i # j /\ kernel.K[i][j] = ONE
    /\ \E i, j \in KIdx : kernel.K[i][j] = ONE \div 2
    /\ \E i, j \in KIdx : kernel.K[i][j] = 0

\* sample j lies within the decay radius of row i of Y:
\* d <= bandwidth * (-ln thresh)^(1/decay)
WithinRadius(i, j) ==
    Pow(Dist(g.data, query[i], j), g.decay)
        <= Pow(Bandwidth(g.data, query[i], g.knn, tie), g.decay) * g.thresh

\* C5: in decay mode build_kernel_to_data(Y) gives every data point within
\* the decay radius of a row of Y (points exactly at the radius included) a
\* nonzero entry in that row.
C5_AllWithinRadiusFound ==
    search.pc = "done" =>
        \A i \in DOMAIN query : \A j \in DOMAIN g.data :
            WithinRadius(i, j) => search.K[i][j] # 0

\* the call that has just ended was set_params on a graph of class cls
SetParamsOn(cls) ==
    call.op = "set_params" /\ call.before.g.cls \in cls

\* the call handed over a value for that parameter different from the value
\* the graph held
Differs(name) ==
    Has(call.params, name)
    /\ call.params[name] # Current(call.before.g, name)

\* C6: on a built kNNGraph or MNNGraph, set_params raises the configuration
\* error exactly when a kernel-affecting parameter is given a value
\* different from its current one, and when it raises the kernel is kept.
C6_RaisesIffKernelParamDiffers ==
    (/\ SetParamsOn({"kNNGraph", "MNNGraph"})
     /\ call.before.g.n_landmark = None
     /\ call.before.kernel.status = "built") =>
        /\ call.raised = CannotUpdate <=>
              \E name \in {"knn", "decay", "distance", "thresh", "beta",
                           "gamma", "adaptive_k"} : Differs(name)
        /\ call.raised # "none" => kernel = call.before.kernel

\* C7: on a TraditionalGraph, from raw data or from a precomputed matrix,
\* set_params with a different value of precomputed, distance, knn, decay
\* or thresh raises the configuration error and changes nothing.
C7_TraditionalRejectsChange ==
    (/\ SetParamsOn({"TraditionalGraph"})
     /\ \E name \in {"precomputed", "distance", "knn", "decay", "thresh"} :
           Differs(name)) =>
        /\ call.raised = CannotUpdate
        /\ g = call.before.g
        /\ kernel = call.before.kernel

\* C8: on a built MNNGraph, set_params with whitelisted parameters only
\* (n_jobs, random_state, verbose) ends without error; afterwards knn_args
\* and every subgraph hold the new values of those parameters, and the
\* kernel-affecting parameters of every subgraph are unchanged.
C8_WhitelistedFanOut ==
    (/\ SetParamsOn({"MNNGraph"})
     /\ call.before.kernel.status = "built"
     /\ DOMAIN call.params \subseteq KnnOtherArgs) =>
        /\ call.raised = "none"
        /\ \A name \in DOMAIN call.params :
              /\ Has(g.knn_args, name)
              /\ g.knn_args[name] = call.params[name]
              /\ \A b \in DOMAIN subgraphs :
                    /\ Has(subgraphs[b].args, name)
                    /\ subgraphs[b].args[name] = call.params[name]
        /\ \A b \in DOMAIN subgraphs :
              /\ subgraphs[b].knn = call.before.subgraphs[b].knn
              /\ \A name \in {"decay", "thresh", "distance"} :
                    Has(subgraphs[b].args, name) =>
                       subgraphs[b].args[name] =
                           call.before.subgraphs[b].args[name]

\* set_params has just changed n_landmark or n_svd of a LandmarkGraph
LandmarkChanged ==
    /\ call.op = "set_params"
    /\ call.before.g.n_landmark # None
    /\ \/ g.n_landmark # call.before.g.n_landmark
       \/ g.n_svd # call.before.g.n_svd

\* C9: on a LandmarkGraph, set_params that changes n_landmark or n_svd
\* discards the cached landmark operator, transitions and cluster
\* assignment and does not touch the kernel; an access to landmark_op or
\* transitions returns a value computed with the current n_landmark and
\* n_svd; set_params that leaves both values as they are keeps the caches.
C9_LandmarkInvalidation ==
    /\ LandmarkChanged =>
          /\ landmark = NoLandmarks
          /\ kernel = call.before.kernel
    /\ (call.op \in {"landmark_op", "transitions"} /\ call.raised = "none")
          => call.ret = Computed(g)
    /\ (/\ call.op = "set_params"
        /\ call.before.g.n_landmark # None
        /\ g.n_landmark = call.before.g.n_landmark
        /\ g.n_svd = call.before.g.n_svd) =>
          landmark = call.before.landmark

\* the matrix assembled from the blocks of the built MNN graph
Assembled ==
    MnnAssemble(g.data, g.sample_idx, g.knn, g.adaptive_k, g.beta,
                ArgDecay(g), ArgThresh(g), tie)

\* sample b is among the neighbours that the subgraph of b's batch returns
\* for sample a, with the neighbour count of a's batch
MnnNeighbour(a, b) ==
    MaskPos(g.sample_idx, g.sample_idx[b], b) \in
        Kneighbors(SubgraphData(g.data, g.sample_idx, g.sample_idx[b]),
                   g.data[a],
                   WeightKnn(g.sample_idx, g.knn, g.adaptive_k,
                             g.sample_idx[a]),
                   tie)

\* a cross-batch pair that is a neighbour pair in one direction only
OneDirectional(a, b) ==
    /\ g.sample_idx[a] # g.sample_idx[b]
    /\ MnnNeighbour(a, b)
    /\ ~MnnNeighbour(b, a)

\* C10: with a scalar gamma = v / PDen the MNN kernel is
\* gamma * min(K, K.T) + (1 - gamma) * max(K, K.T) of the assembled matrix
\* K: the maximum of K[a][b] and K[b][a] for gamma = 0, the minimum for
\* gamma = 1, and for binary subgraphs a one-directional cross-batch
\* neighbour pair weighs 0 under gamma = 1 and 1 under gamma = 0.
C10_ScalarGammaBlend ==
    (Built /\ g.cls = "MNNGraph" /\ g.gamma.kind = "scalar") =>
        LET A == Assembled
            v == g.gamma.val
        IN  \A a, b \in KIdx :
              LET lo == IF A[a][b] < A[b][a] THEN A[a][b] ELSE A[b][a]
                  hi == IF A[a][b] < A[b][a] THEN A[b][a] ELSE A[a][b]
              IN  /\ PDen * kernel.K[a][b] <= v * lo + (PDen - v) * hi
                  /\ v * lo + (PDen - v) * hi < PDen * (kernel.K[a][b] + 1)
                  /\ v = 0 => kernel.K[a][b] = hi
                  /\ v = PDen => kernel.K[a][b] = lo
                  /\ (ArgDecay(g) = None /\ v \in {0, PDen}
                      /\ OneDirectional(a, b)) =>
                        /\ v = PDen => kernel.K[a][b] = 0
                        /\ v = 0 => kernel.K[a][b] = ONE

\* a built MNN kernel with gamma = 1 over binary subgraphs that holds a
\* one-directional cross-batch pair, and a mutual cross-batch pair that
\* keeps its weight
C10_Witness ==
    /\ Built /\ g.cls = "MNNGraph" /\ g.gamma.kind = "scalar"
    /\ g.gamma.val = PDen /\ ArgDecay(g) = None
    /\ \E a, b \in KIdx : OneDirectional(a, b) /\ kernel.K[a][b] = 0
    /\ \E a, b \in KIdx :
          /\ g.sample_idx[a] # g.sample_idx[b]
          /\ kernel.K[a][b] = ONE

\* the kernel from the data of subgraph si to the data of subgraph sj, as
\* subgraph sj computes it with the neighbour count of subgraph si
SubgraphKernel(si, sj) ==
    KnnBuildKernelToData(subgraphs[sj].data, subgraphs[si].data,
                         subgraphs[si].knn, ArgDecay(g), ArgThresh(g), tie)

\* C11: before the symmetrization of MNNGraph.build_kernel(), every
\* within-batch block (i, i) is beta times the unweighted kernel of
\* subgraph i to its own data, and every cross-batch block (i, j), i # j,
\* is the kernel of subgraph j to the data of subgraph i, unscaled.
C11_BetaScalesWithinBatch ==
    (Built /\ g.cls = "MNNGraph") =>
        LET A == Assembled
            U == [si \in DOMAIN subgraphs |-> [sj \in DOMAIN subgraphs |->
                     SubgraphKernel(si, sj)]]
        IN  \A a, b \in KIdx :
              LET si == g.sample_idx[a] + 1
                  sj == g.sample_idx[b] + 1
                  u == U[si][sj][MaskPos(g.sample_idx, g.sample_idx[a], a)]
                                [MaskPos(g.sample_idx, g.sample_idx[b], b)]
              IN  IF si = sj
                  THEN /\ PDen * A[a][b] <= g.beta * u
                       /\ g.beta * u < PDen * (A[a][b] + 1)
                  ELSE A[a][b] = u

\* a built MNN graph with beta = 1/2 that holds a within-batch pair of
\* weight 1/2 before the symmetrization and a cross-batch pair of weight 1
C11_Witness ==
    /\ Built /\ g.cls = "MNNGraph" /\ 2 * g.beta = PDen
    /\ \E a, b \in KIdx :
          /\ a # b /\ g.sample_idx[a] = g.sample_idx[b]
          /\ 2 * Assembled[a][b] = ONE
    /\ \E a, b \in KIdx :
          /\ g.sample_idx[a] # g.sample_idx[b]
          /\ Assembled[a][b] = ONE

\* the call that has just ended was MNNGraph.build_kernel_to_data on a built
\* graph whose gamma is a matrix
ToDataOnMatrixGamma ==
    /\ call.op = "build_kernel_to_data"
    /\ call.before.kernel.status = "built"
    /\ g.gamma.kind = "matrix"

\* the blend of the claim for the entry of new point r and sample c, with
\* yk neighbours searched from the samples among the new points
VectorBlend(gv, yk, r, c) ==
    LET b == g.sample_idx[c]
        sub == SubgraphData(g.data, g.sample_idx, b)
        pos == MaskPos(g.sample_idx, b, c)
        Kxy == KnnBuildKernelToData(sub, query, subgraphs[b + 1].knn,
                                    ArgDecay(g), ArgThresh(g), tie)
        Kyx == KnnBuildKernelToData(query, sub, yk, ArgDecay(g),
                                    ArgThresh(g), tie)
    IN  (gv[b + 1] * Min2(Kxy[r][pos], Kyx[pos][r])
         + (PDen - gv[b + 1]) * Max2(Kxy[r][pos], Kyx[pos][r])) \div PDen

\* C12: on a graph whose gamma is a matrix, build_kernel_to_data(Y, gamma=g)
\* with one value of g per batch returns the kernel whose columns of batch i
\* are g[i] * min(Kxy, Kyx.T) + (1 - g[i]) * max(Kxy, Kyx.T); with g None or
\* of another length the call raises the configuration error.
C12_VectorGammaToData ==
    ToDataOnMatrixGamma =>
        LET gamma == call.params.gamma
        IN  IF ~gamma.given \/ Len(gamma.val) # NumBatches(g.sample_idx)
            THEN call.raised = GammaNotProvided
            ELSE /\ call.raised = "none"
                 /\ \E yk \in 1 .. Len(query) :
                       \A r \in DOMAIN query, c \in DOMAIN g.data :
                          call.ret[r][c] = VectorBlend(gamma.val, yk, r, c)

\* the arguments of MNNGraph.__init__ the claim accepts
ValidSampleIdx ==
    /\ g.sample_idx.given
    /\ Len(g.sample_idx.val) = Len(g.data)
    /\ NumBatches(g.sample_idx.val) >= 2

ValidGamma ==
    \/ g.gamma.kind \in {"+", "*"}
    \/ g.gamma.kind = "scalar" /\ 0 <= g.gamma.val /\ g.gamma.val <= PDen
    \/ /\ g.gamma.kind = "matrix"
       /\ g.gamma.rows = NumBatches(g.sample_idx.val)
       /\ g.gamma.cols = NumBatches(g.sample_idx.val)
       /\ \A x \in GammaEntries(g.gamma) : 0 <= x /\ x <= PDen
       /\ \A i, j \in 0 .. g.gamma.rows - 1 :
             g.gamma.val[i][j] = g.gamma.val[j][i]

\* C13: the construction of an MNNGraph returns only if sample_idx is given,
\* is as long as the data and holds two distinct values or more, and gamma
\* is '+', '*', a scalar in [0, 1] or a symmetric batches x batches matrix
\* with entries in [0, 1]; for every other combination it raises the
\* configuration error.
C13_ConstructionValidated ==
    call.op = "__init__" =>
        /\ call.raised = "none" => (ValidSampleIdx /\ ValidGamma)
        /\ ~(ValidSampleIdx /\ ValidGamma) => call.raised = ConfigError

\* build_kernel has created the subgraphs of g (the computation of the
\* blocks may have raised afterwards)
SubgraphsCreated == g.cls = "MNNGraph" /\ subgraphs # <<>>

\* the sizes of the batches of g and the neighbour counts of its subgraphs
BatchIdx == 0 .. NumBatches(g.sample_idx) - 1
BatchSize(i) == NCells(g.sample_idx, i)
MinBatchSize == SetMin({BatchSize(i) : i \in BatchIdx})
BatchKnn(i) == subgraphs[i + 1].knn

\* c is a nearest integer of knn * num / den
NearestOfRatio(c, num, den) ==
    2 * c * den - den <= 2 * g.knn * num /\ 2 * g.knn * num <= 2 * c * den + den

\* c is a nearest integer of knn * sqrt(num / den)
NearestOfRoot(c, num, den) ==
    /\ c >= 0
    /\ c > 0 => (2 * c - 1) * (2 * c - 1) * den <= 4 * g.knn * g.knn * num
    /\ 4 * g.knn * g.knn * num <= (2 * c + 1) * (2 * c + 1) * den

\* C14: the neighbour count of batch i is round(knn * w_i), w_i being
\* n_i / min(n) for 'min', n_i / mean(n) for 'mean', sqrt(n_i / min(n)) for
\* 'sqrt' and 1 for 'none'; a larger batch never gets a smaller count than a
\* smaller one, and under 'min', 'sqrt' and 'none' the smallest batch gets
\* exactly knn.
C14_AdaptiveKnn ==
    SubgraphsCreated =>
        /\ \A i \in BatchIdx :
              IF g.adaptive_k = "min"
              THEN NearestOfRatio(BatchKnn(i), BatchSize(i), MinBatchSize)
              ELSE IF g.adaptive_k = "mean"
              THEN NearestOfRatio(BatchKnn(i),
                                  BatchSize(i) * NumBatches(g.sample_idx),
                                  Len(g.sample_idx))
              ELSE IF g.adaptive_k = "sqrt"
              THEN NearestOfRoot(BatchKnn(i), BatchSize(i), MinBatchSize)
              ELSE BatchKnn(i) = g.knn
        /\ \A i, j \in BatchIdx :
              BatchSize(i) >= BatchSize(j) => BatchKnn(i) >= BatchKnn(j)
        /\ g.adaptive_k \in {"min", "sqrt", "none"} =>
              \A i \in BatchIdx :
                 BatchSize(i) = MinBatchSize => BatchKnn(i) = g.knn

\* a graph with adaptive_k = 'sqrt' whose larger batch searches more
\* neighbours than its smallest batch, which searches knn
C14_Witness ==
    /\ SubgraphsCreated
    /\ g.adaptive_k = "sqrt"
    /\ \E i, j \in BatchIdx :
          /\ BatchSize(i) > BatchSize(j)
          /\ BatchKnn(i) > BatchKnn(j)
          /\ BatchKnn(j) = g.knn

\* the construction parameters the claim lists for the variant of g
ListedParams ==
    (CASE g.cls = "kNNGraph" -> {"knn", "decay", "distance", "thresh"}
       [] g.cls = "TraditionalGraph" ->
            {"knn", "decay", "distance", "thresh", "precomputed"}
       [] g.cls = "MNNGraph" -> {"knn", "beta", "gamma", "adaptive_k"})
    \cup (IF g.n_landmark # None THEN {"n_landmark", "n_svd"} ELSE {})

\* C15: get_params() returns every construction parameter of the variant
\* (kNNGraph knn, decay, distance, thresh; TraditionalGraph these and
\* precomputed; LandmarkGraph n_landmark and n_svd; MNNGraph knn, beta,
\* gamma, adaptive_k), each with its current value.
C15_GetParamsComplete ==
    call.op = "get_params" =>
        \A name \in ListedParams :
            /\ name \in DOMAIN call.ret
            /\ call.ret[name] = g[name]

\* build_landmark_op() has stored the landmark matrices
LandmarksBuilt == call.op = "build_landmark_op" /\ landmark # NoLandmarks

\* a normalized row sums to 1
SumsToOne(row) == SumSeq(row.num) = row.den

\* C16: after build_landmark_op(), pmn has one row per cluster id that was
\* assigned (at most n_landmark rows) and pnm one row per sample, and every
\* row of pmn and every row of pnm, the cached transitions, sums to 1.
C16_LandmarkRowsStochastic ==
    LandmarksBuilt =>
        LET pmn == landmark.landmark_op.pmn
            pnm == landmark.transitions
        IN  /\ Len(pmn) = Cardinality({landmark.clusters[a] :
                                          a \in DOMAIN landmark.clusters})
            /\ Len(pmn) <= g.n_landmark
            /\ Len(pnm) = Len(g.data)
            /\ \A r \in DOMAIN pmn : SumsToOne(pmn[r])
            /\ \A a \in DOMAIN pnm : SumsToOne(pnm[a])

\* the number of the batch of sample a: its label is the BatchOf(a)-th
\* value of np.unique(sample_idx)
BatchOf(a) ==
    Cardinality({l \in Labels(g.sample_idx) : l < g.sample_idx[a]})

\* no neighbour query of build_kernel asks a subgraph for more neighbours
\* than it holds samples
QueriesAnswered ==
    \A i, j \in BatchIdx :
        ~MnnBlockRaises(g.sample_idx, g.knn, g.adaptive_k, i, j)

\* C17: for any batch labels, 0..m-1 or not, build_kernel() writes the block
\* computed from subgraph i to subgraph j into the rows of the samples of
\* the i-th batch and the columns of the samples of the j-th batch, the
\* samples the subgraphs were built from, so that every entry of the n x n
\* matrix is covered by exactly one block.
C17_BlocksCoverMatrix ==
    (SubgraphsCreated /\ QueriesAnswered) =>
        /\ Built
        /\ \A a, b \in DOMAIN g.data :
              Assembled[a][b] =
                 MnnBlock(g.data, g.sample_idx, g.knn, g.adaptive_k, g.beta,
                          ArgDecay(g), ArgThresh(g), tie, BatchOf(a),
                          BatchOf(b))[MaskPos(g.sample_idx, g.sample_idx[a], a)]
                                     [MaskPos(g.sample_idx, g.sample_idx[b], b)]

\* a pass of the while loop has just run
EscalationPass ==
    /\ search.pc = "loop"
    /\ search'.pc = "loop"
    /\ search'.st.passes = search.st.passes + 1

\* C18: in decay mode the escalation of build_kernel_to_data terminates for
\* every knn >= 1 and every n >= 1: each pass of the loop runs only while
\* more than a tenth of the rows are unresolved and the candidate count is
\* below n / 2, and makes the count strictly larger (times 20, capped at
\* n); the call then ends, with at most one radius query, and does not
\* raise.
C18_EscalationEnds ==
    /\ [][EscalationPass =>
            /\ Cardinality(search.st.update_idx) > Len(query) \div UpdateDivisor
            /\ 2 * search.st.search_knn < Len(g.data)
            /\ search'.st.search_knn > search.st.search_knn
            /\ search'.st.search_knn =
                  Min2(search.st.search_knn * SearchFactor, Len(g.data))]_vars
    /\ <>(search.pc = "done" /\ search.radius_queries <= 1)

\* C19: whenever set_params raises, on any graph variant, the call had no
\* effect: every parameter (n_landmark, n_svd and knn_args included), the
\* cached kernel, the subgraphs and the landmark caches have the values they
\* had before the call, also when the call carries an allowed change next to
\* the rejected one.
C19_SetParamsAtomic ==
    (call.op = "set_params" /\ call.raised # "none") =>
        /\ g = call.before.g
        /\ kernel = call.before.kernel
        /\ subgraphs = call.before.subgraphs
        /\ landmark = call.before.landmark

\* the three cached values of the landmark graph
LandmarkCaches == {landmark.landmark_op, landmark.transitions, landmark.clusters}

\* C20: in every reachable state of a LandmarkGraph the cached _landmark_op,
\* _transitions and _clusters are all present or all absent, and when
\* present they were all computed with the current n_landmark and n_svd.
C20_LandmarkCachesConsistent ==
    g.n_landmark # None =>
        \/ \A c \in LandmarkCaches : ~c.present
        \/ \A c \in LandmarkCaches : c = Computed(g)

\* C21: extend_to_data(data) can be called in any state, also before the
\* landmark operator was built and right after set_params invalidated it:
\* it never reads a missing cluster assignment, and its result has one
\* column per realized landmark, in the landmark order of the columns of
\* `transitions`.
C21_ExtendAnyState ==
    call.op = "extend_to_data" =>
        /\ call.raised = "none"
        /\ call.ret.present
        /\ landmark.transitions.present => call.ret = landmark.transitions

\* the graph exists: its construction returned, or a later call has ended
Constructed ==
    \/ call.op = "__init__" /\ call.raised = "none"
    \/ call.op = "set_params"

\* C22: a LandmarkGraph never holds n_landmark >= n_samples: the
\* construction with such a value raises the configuration error, and after
\* any set_params n_landmark is still strictly below the number of samples.
C22_LandmarkBelowSamples ==
    /\ (call.op = "__init__" /\ g.n_landmark >= Len(g.data)) =>
          call.raised = ConfigError
    /\ Constructed => g.n_landmark < Len(g.data)

=============================================================================
